---- MODULE Spec2Model ----
(***************************************************************************)
(* A model of src/app.py: the task gateway.                                *)
(*                                                                         *)
(*   POST /run   run_task -> execute_task -> parse_task_with_llm           *)
(*               (memoised by functools.lru_cache) -> subprocess.run       *)
(*   GET  /read  read_file -> validate_path -> open                        *)
(*   fetch_api_data, run_sql_query: validate_path, then open / connect     *)
(*                                                                         *)
(* Text (a command, a path) is a sequence of glyphs.  A glyph is a fixed   *)
(* run of characters ("rm", "data", "/", " ", ...); no glyph is a prefix  *)
(* of another, so two texts are equal, or one a prefix of the other, as    *)
(* Python strings exactly when their glyph sequences are.                  *)
(***************************************************************************)
EXTENDS Integers, Sequences, FiniteSets, TLC

\* ------------------------------------------------------------------ bounds

\* lru_cache(maxsize=100) at src/app.py:36, scaled down: the cache logic
\* depends on the capacity only through comparisons with the cache's size.
maxsize == 2

\* Distinct task descriptions submitted: maxsize + 1, so that maxsize strings
\* other than a given one exist and the cache overflows.
NumTasks == 3

\* Concurrent /run requests (worker threads of the serving framework).
NumReqs == 2

Tasks == 1..NumTasks
Reqs == 1..NumReqs

\* "Nothing yet" for each kind of value.
NoTask == 0
NoText == <<>>
NoChild == [how |-> "none", rc |-> 0, err |-> <<>>]
NoResp == [status |-> 0, detail |-> <<>>, message |-> <<>>]

\* --------------------------------------------------------------- str methods

WS == " "

RECURSIVE lstrip(_)
lstrip(s) ==
  IF s # <<>> /\ Head(s) = WS THEN lstrip(Tail(s)) ELSE s

RECURSIVE rstrip(_)
rstrip(s) ==
  IF s # <<>> /\ s[Len(s)] = WS THEN rstrip(SubSeq(s, 1, Len(s) - 1)) ELSE s

\* str.strip()
strip(s) == rstrip(lstrip(s))

\* The first whitespace-free run of s, s not starting with whitespace.
RECURSIVE FirstWord(_)
FirstWord(s) ==
  IF s = <<>> \/ Head(s) = WS THEN <<>> ELSE <<Head(s)>> \o FirstWord(Tail(s))

\* str.split(): the maximal whitespace-free runs, in order.
RECURSIVE split(_)
split(s) ==
  LET t == lstrip(s)
      w == FirstWord(t)
  IN IF t = <<>> THEN <<>>
     ELSE <<w>> \o split(SubSeq(t, Len(w) + 1, Len(t)))

\* ------------------------------------------------------- the external world

\* response["choices"][0]["message"]["content"], as the model may return it.
Contents ==
  { <<WS>>,
    <<"ls", WS>>,
    <<WS, "rm", WS, "x">>,
    <<"delete">>,
    <<"rm", "x">> }

\* The child's exit status, standard output and standard error.
ExitCodes == {0, 1}
Stdouts == { <<>>, <<"out", WS>> }
Stderrs == { <<>>, <<"err">> }

\* ------------------------------------------------------------------- state

VARIABLES
  cache,        \* lru_cache of parse_task_with_llm: <<[key, val]>>, oldest first
  pc,           \* per request: idle, llm, child, expired, done
  task,         \* per request: the task description
  command,      \* per request: execute_task's local `command`
  spawned,      \* per request: the argv given to subprocess.run (<<>>: not called)
  child,        \* per request: how the child ended (exit, timeout, oserror)
  resp,         \* per request: the HTTP response that leaves run_task
  log,          \* per request: the records it logged
  llm_calls,    \* per request: its calls of the external model
  recent,       \* history: the maxsize tasks last translated with success, latest last
  insertedSince,\* history: per task, the other tasks cached since its last use
  translated,   \* history: tasks whose translation ever succeeded
  lastOutcome,  \* history: per task, how its latest translation call ended
  cwd,          \* the process's working directory, as path segments
  files,        \* the regular files that exist, each as canonical path segments
  op            \* the latest call of read_file, fetch_api_data or run_sql_query

runVars == <<cache, pc, task, command, spawned, child, resp, log, llm_calls>>

hist == <<recent, insertedSince, translated, lastOutcome>>

pathVars == <<cwd, files, op>>

vars == <<runVars, hist, pathVars>>

\* --------------------------------------------------------------- lru_cache

Keys(c) == { c[i].key : i \in 1..Len(c) }

Index(c, k) == CHOOSE i \in 1..Len(c) : c[i].key = k

Lookup(c, k) == c[Index(c, k)].val

Without(c, i) == SubSeq(c, 1, i - 1) \o SubSeq(c, i + 1, Len(c))

\* A hit moves the entry to the most-recently-used end.
CacheHit_NoTouch(c, k) == c

CacheHit(c, k) == Append(Without(c, Index(c, k)), c[Index(c, k)])

\* After the wrapped function returned: when the key was added meanwhile the
\* cache is left alone; when the cache is full the oldest entry is dropped.
CacheStore_NoRecheck(c, k, v) ==
  IF Len(c) >= maxsize THEN Append(Tail(c), [key |-> k, val |-> v])
  ELSE Append(c, [key |-> k, val |-> v])

CacheStore(c, k, v) ==
  IF k \in Keys(c) THEN c
  ELSE IF Len(c) >= maxsize THEN Append(Tail(c), [key |-> k, val |-> v])
  ELSE Append(c, [key |-> k, val |-> v])

\* ------------------------------------------------------------- exceptions

HTTPException(status, detail) ==
  [cls |-> "HTTPException", status |-> status, detail |-> detail]

ValueError(msg) == [cls |-> "ValueError", status |-> 0, detail |-> msg]

TimeoutExpired == [cls |-> "TimeoutExpired", status |-> 0, detail |-> <<"timed out">>]

\* A plain Exception, or another subclass of it (OSError from subprocess.run).
PlainException(msg) == [cls |-> "Exception", status |-> 0, detail |-> msg]

\* isinstance(e, cls) for the classes the except clauses name.
IsInstance(e, cls) == cls = "Exception" \/ e.cls = cls

FailedToParse == <<"Failed to parse task.">>
DeletionNotAllowed == <<"File deletion is not allowed.">>
TaskTimeout == <<"Task execution timeout.">>
InternalAgentError == <<"Internal agent error">>
LLMParsingError == <<"LLM parsing error">>
UnexpectedServerError == <<"Unexpected server error.">>

\* The except clauses of execute_task, in order: the exception that leaves it.
ExecuteTaskExcept_GenericFirst(e) == HTTPException(500, InternalAgentError)

ExecuteTaskExcept(e) ==
  IF IsInstance(e, "ValueError") THEN HTTPException(400, e.detail)
  ELSE IF IsInstance(e, "TimeoutExpired") THEN HTTPException(500, TaskTimeout)
  ELSE HTTPException(500, InternalAgentError)

\* What execute_task logs for e: only the last clause logs.
ExecuteTaskLog(e) ==
  IF IsInstance(e, "ValueError") \/ IsInstance(e, "TimeoutExpired") THEN <<>>
  ELSE << <<"Task execution error", e.detail>> >>

\* The except clauses of run_task: an HTTPException is raised again.
RunTaskExcept(e) ==
  IF IsInstance(e, "HTTPException") THEN e
  ELSE HTTPException(500, UnexpectedServerError)

\* The response the framework sends for an HTTPException leaving the route.
ErrorResponse(e) == [status |-> e.status, detail |-> e.detail, message |-> NoText]

SuccessResponse(msg) == [status |-> 200, detail |-> NoText, message |-> msg]

\* The response of POST /run when execute_task's try body raised e.
RaisedIn(e) == ErrorResponse(RunTaskExcept(ExecuteTaskExcept(e)))

\* ---------------------------------------------------------- execute_task

Denylist == { <<"rm">>, <<"delete">> }

Denied_RmOnly(command_parts) == command_parts[1] = <<"rm">>

\* command_parts[0] in ["rm", "delete"]
Denied(command_parts) == command_parts[1] \in Denylist

ChildFailed_Negative(returncode) == returncode < 0

\* result.returncode != 0
ChildFailed(returncode) == returncode # 0

\* execute_task from the return of parse_task_with_llm to subprocess.run.
AfterParse(r, cmd) ==
  /\ command' = [command EXCEPT ![r] = cmd]
  /\ IF cmd = <<>>
     THEN /\ pc' = [pc EXCEPT ![r] = "done"]
          /\ resp' = [resp EXCEPT ![r] = RaisedIn(ValueError(FailedToParse))]
          /\ log' = [log EXCEPT ![r] = @ \o ExecuteTaskLog(ValueError(FailedToParse))]
          /\ UNCHANGED spawned
     ELSE IF Denied(split(cmd))
     THEN /\ pc' = [pc EXCEPT ![r] = "done"]
          /\ resp' = [resp EXCEPT ![r] = RaisedIn(HTTPException(403, DeletionNotAllowed))]
          /\ log' = [log EXCEPT ![r] =
                       @ \o ExecuteTaskLog(HTTPException(403, DeletionNotAllowed))]
          /\ UNCHANGED spawned
     ELSE /\ pc' = [pc EXCEPT ![r] = "child"]
          /\ spawned' = [spawned EXCEPT ![r] = split(cmd)]
          /\ UNCHANGED <<resp, log>>
  /\ UNCHANGED child

\* History of successful translations (not program state).
Forget(s, t) == SelectSeq(s, LAMBDA e : e.key # t)

LastN(s, n) == IF Len(s) <= n THEN s ELSE SubSeq(s, Len(s) - n + 1, Len(s))

Succeeded(t, text, inserted) ==
  /\ recent' = LastN(Append(Forget(recent, t), [key |-> t, val |-> text]), maxsize)
  /\ translated' = translated \cup {t}
  /\ insertedSince' =
       [u \in Tasks |->
          IF u = t THEN {}
          ELSE IF inserted /\ u \in translated THEN insertedSince[u] \cup {t}
          ELSE insertedSince[u]]
  /\ lastOutcome' = [lastOutcome EXCEPT ![t] = "ok"]

\* POST /run?task=t, the translation served from the cache.
CallHit(r, t) ==
  /\ pc[r] = "idle"
  /\ t \in Keys(cache)
  /\ task' = [task EXCEPT ![r] = t]
  /\ cache' = CacheHit(cache, t)
  /\ AfterParse(r, Lookup(cache, t))
  /\ UNCHANGED llm_calls
  /\ UNCHANGED pathVars

\* POST /run?task=t, a cache miss: the external model is called.
CallMiss(r, t) ==
  /\ pc[r] = "idle"
  /\ t \notin Keys(cache)
  /\ task' = [task EXCEPT ![r] = t]
  /\ pc' = [pc EXCEPT ![r] = "llm"]
  /\ llm_calls' = [llm_calls EXCEPT ![r] = @ + 1]
  /\ UNCHANGED <<cache, command, spawned, child, resp, log>>
  /\ UNCHANGED pathVars

\* The external model answers: the stripped content is cached and returned.
LLMReturn(r, content) ==
  /\ pc[r] = "llm"
  /\ cache' = CacheStore(cache, task[r], strip(content))
  /\ AfterParse(r, strip(content))
  /\ UNCHANGED <<task, llm_calls>>
  /\ UNCHANGED pathVars

\* (as if the except clause returned an empty string, which lru_cache stores)
LLMRaise_ReturnsEmpty(r) ==
  /\ pc[r] = "llm"
  /\ cache' = CacheStore(cache, task[r], <<>>)
  /\ AfterParse(r, <<>>)
  /\ UNCHANGED <<task, llm_calls>>
  /\ UNCHANGED pathVars

\* The external call raises: parse_task_with_llm logs and raises
\* HTTPException(500), which execute_task's last clause takes.
LLMRaise(r) ==
  /\ pc[r] = "llm"
  /\ pc' = [pc EXCEPT ![r] = "done"]
  /\ resp' = [resp EXCEPT ![r] = RaisedIn(HTTPException(500, LLMParsingError))]
  /\ log' = [log EXCEPT ![r] = @ \o << <<"LLM parsing error", <<>> >> >>
                                 \o ExecuteTaskLog(HTTPException(500, LLMParsingError))]
  /\ UNCHANGED <<cache, task, command, spawned, child, llm_calls>>
  /\ UNCHANGED pathVars

\* subprocess.run cannot start the program (OSError).
SpawnError(r) ==
  /\ pc[r] = "child"
  /\ child' = [child EXCEPT ![r] = [how |-> "oserror", rc |-> 0, err |-> <<>>]]
  /\ pc' = [pc EXCEPT ![r] = "done"]
  /\ resp' = [resp EXCEPT ![r] = RaisedIn(PlainException(<<"oserror">>))]
  /\ log' = [log EXCEPT ![r] = @ \o ExecuteTaskLog(PlainException(<<"oserror">>))]
  /\ UNCHANGED <<cache, task, command, spawned, llm_calls>>
  /\ UNCHANGED pathVars

\* The child exits within the timeout.
ChildExit(r, returncode, stdout, stderr) ==
  /\ pc[r] = "child"
  /\ child' = [child EXCEPT ![r] = [how |-> "exit", rc |-> returncode, err |-> stderr]]
  /\ pc' = [pc EXCEPT ![r] = "done"]
  /\ IF ChildFailed(returncode)
     THEN /\ resp' = [resp EXCEPT ![r] = RaisedIn(PlainException(stderr))]
          /\ log' = [log EXCEPT ![r] = @ \o ExecuteTaskLog(PlainException(stderr))]
     ELSE /\ resp' = [resp EXCEPT ![r] = SuccessResponse(strip(stdout))]
          /\ UNCHANGED log
  /\ UNCHANGED <<cache, task, command, spawned, llm_calls>>
  /\ UNCHANGED pathVars

\* The 20 seconds pass with the child still running.
TimeoutExpires(r) ==
  /\ pc[r] = "child"
  /\ child' = [child EXCEPT ![r] = [how |-> "timeout", rc |-> 0, err |-> <<>>]]
  /\ pc' = [pc EXCEPT ![r] = "expired"]
  /\ UNCHANGED <<cache, task, command, spawned, resp, log, llm_calls>>
  /\ UNCHANGED pathVars

\* subprocess.run kills the child and raises TimeoutExpired.
TimeoutRaised(r) ==
  /\ pc[r] = "expired"
  /\ pc' = [pc EXCEPT ![r] = "done"]
  /\ resp' = [resp EXCEPT ![r] = RaisedIn(TimeoutExpired)]
  /\ log' = [log EXCEPT ![r] = @ \o ExecuteTaskLog(TimeoutExpired)]
  /\ UNCHANGED <<cache, task, command, spawned, child, llm_calls>>
  /\ UNCHANGED pathVars

\* The response is sent; the worker takes the next request.
Respond(r) ==
  /\ pc[r] = "done"
  /\ pc' = [pc EXCEPT ![r] = "idle"]
  /\ task' = [task EXCEPT ![r] = NoTask]
  /\ command' = [command EXCEPT ![r] = NoText]
  /\ spawned' = [spawned EXCEPT ![r] = NoText]
  /\ child' = [child EXCEPT ![r] = NoChild]
  /\ resp' = [resp EXCEPT ![r] = NoResp]
  /\ log' = [log EXCEPT ![r] = <<>>]
  /\ llm_calls' = [llm_calls EXCEPT ![r] = 0]
  /\ UNCHANGED cache
  /\ UNCHANGED pathVars

RunInit ==
  /\ cache = <<>>
  /\ pc = [r \in Reqs |-> "idle"]
  /\ task = [r \in Reqs |-> NoTask]
  /\ command = [r \in Reqs |-> NoText]
  /\ spawned = [r \in Reqs |-> NoText]
  /\ child = [r \in Reqs |-> NoChild]
  /\ resp = [r \in Reqs |-> NoResp]
  /\ log = [r \in Reqs |-> <<>>]
  /\ llm_calls = [r \in Reqs |-> 0]
  /\ recent = <<>>
  /\ insertedSince = [t \in Tasks |-> {}]
  /\ translated = {}
  /\ lastOutcome = [t \in Tasks |-> "none"]

Failed(t) ==
  /\ lastOutcome' = [lastOutcome EXCEPT ![t] = "fail"]
  /\ UNCHANGED <<recent, insertedSince, translated>>

\* ------------------------------------------------------------ file system

SEP == "/"

\* File names, as glyphs: data2 is data followed by 2.
NameData == <<"data">>
NameData2 == <<"data", "2">>
Names == { NameData, NameData2, <<"f">>, <<"ln">>, <<"..">> }

\* Segments of a raw path.
MaxSegs == 2

SegSeqs == UNION { [1..n -> Names] : n \in 0..MaxSegs }

\* The directories, and the one symbolic link: /data/ln -> /
Dirs == { <<>>, <<NameData>>, <<NameData2>> }
LinkPath == <<NameData, <<"ln">> >>
LinkTarget == <<>>

RECURSIVE Join(_)
\* "/".join(segs)
Join(segs) ==
  IF segs = <<>> THEN <<>>
  ELSE IF Len(segs) = 1 THEN segs[1]
  ELSE segs[1] \o <<SEP>> \o Join(Tail(segs))

\* The path strings callers pass: absolute and relative.
RawPaths == { <<SEP>> \o Join(segs) : segs \in SegSeqs } \cup { Join(segs) : segs \in SegSeqs }

\* The paths callers save to and query: those naming a file f.
SavePaths ==
  { <<SEP>> \o Join(Append(segs, <<"f">>)) : segs \in UNION { [1..n -> Names] : n \in 0..(MaxSegs - 1) } }
  \cup { Join(Append(segs, <<"f">>)) : segs \in UNION { [1..n -> Names] : n \in 0..(MaxSegs - 1) } }

\* The glyphs of path up to the first separator.
RECURSIVE FirstSegment(_)
FirstSegment(path) ==
  IF path = <<>> \/ Head(path) = SEP THEN <<>>
  ELSE <<Head(path)>> \o FirstSegment(Tail(path))

\* path.split("/")
RECURSIVE Components(_)
Components(path) ==
  LET c == FirstSegment(path)
  IN IF Len(c) = Len(path) THEN <<c>>
     ELSE <<c>> \o Components(SubSeq(path, Len(c) + 2, Len(path)))

\* One component applied to the resolved prefix: "" is skipped, ".." drops
\* the last segment, a name is appended and a symbolic link followed.
Resolve1(stack, c) ==
  IF c = <<>> THEN stack
  ELSE IF c = <<"..">> THEN (IF stack = <<>> THEN <<>> ELSE SubSeq(stack, 1, Len(stack) - 1))
  ELSE IF Append(stack, c) = LinkPath THEN LinkTarget
  ELSE Append(stack, c)

RECURSIVE ResolveAll(_, _)
ResolveAll(stack, cs) ==
  IF cs = <<>> THEN stack ELSE ResolveAll(Resolve1(stack, Head(cs)), Tail(cs))

\* The canonical segments of a path string: what the operating system, and
\* os.path.realpath, resolve it to.
Canonical(filepath) ==
  IF filepath # <<>> /\ Head(filepath) = SEP
  THEN ResolveAll(<<>>, Components(Tail(filepath)))
  ELSE ResolveAll(cwd, Components(filepath))

\* os.path.realpath(filepath), as a string
realpath(filepath) == <<SEP>> \o Join(Canonical(filepath))

\* str.startswith
startswith(s, prefix) ==
  Len(s) >= Len(prefix) /\ SubSeq(s, 1, Len(prefix)) = prefix

\* The sandbox root
DataRoot == <<SEP, "data">>

\* not real_path.startswith("/data"), negated: validate_path returns
Allowed(real_path) == startswith(real_path, DataRoot)

\* validate_path(filepath): the path it returns, or the exception it raises.
AccessForbidden == <<"Access outside /data is forbidden.">>

validate_path(filepath) ==
  IF ~Allowed(realpath(filepath))
  THEN [ok |-> FALSE, real_path |-> realpath(filepath),
        exc |-> HTTPException(403, AccessForbidden)]
  ELSE [ok |-> TRUE, real_path |-> realpath(filepath), exc |-> NoResp]

\* os.path.isfile(path)
isfile(path) == Canonical(path) \in files

\* Whether open(path, "w") or duckdb.connect(path) can create the file: its
\* parent is a directory, and it is no directory itself.
Creatable(path) ==
  LET c == Canonical(path)
  IN /\ c # <<>>
     /\ c \notin Dirs
     /\ SubSeq(c, 1, Len(c) - 1) \in Dirs

\* A handler's call, as recorded: the raw path, what validate_path answered,
\* the string given to open or connect (opened: whether one was), the result.
OpRecord(kind, raw, v, opened, target, status, detail) ==
  [kind |-> kind, raw |-> raw, ok |-> v.ok, real_path |-> v.real_path,
   opened |-> opened, target |-> target, status |-> status, detail |-> detail]

NoOp == [kind |-> "none", raw |-> <<>>, ok |-> FALSE, real_path |-> <<>>,
         opened |-> FALSE, target |-> <<>>, status |-> 0, detail |-> <<>>]

\* GET /read?path=...; readable: whether open and read succeed.
read_file(path, readable) ==
  LET v == validate_path(path)
  IN /\ op' = (IF ~v.ok
               THEN OpRecord("read", path, v, FALSE, <<>>, 403, AccessForbidden)
               ELSE IF ~isfile(v.real_path)
               THEN OpRecord("read", path, v, FALSE, <<>>, 404, <<"File not found.">>)
               ELSE IF ~readable
               THEN OpRecord("read", path, v, TRUE, v.real_path, 500, <<"Error reading file">>)
               ELSE OpRecord("read", path, v, TRUE, v.real_path, 200, <<>>))
     /\ UNCHANGED <<cwd, files>>

\* fetch_api_data(url, save_path); fetched: whether the GET succeeds.  An
\* OSError of open is not caught (status -1: it leaves the function).
fetch_api_data(save_path, fetched) ==
  LET v == validate_path(save_path)
  IN IF ~v.ok
     THEN /\ op' = OpRecord("fetch", save_path, v, FALSE, <<>>, 403, AccessForbidden)
          /\ UNCHANGED <<cwd, files>>
     ELSE IF ~fetched
     THEN /\ op' = OpRecord("fetch", save_path, v, FALSE, <<>>, 500,
                            <<"Failed to fetch API data.">>)
          /\ UNCHANGED <<cwd, files>>
     ELSE IF ~Creatable(save_path)
     THEN /\ op' = OpRecord("fetch", save_path, v, TRUE, save_path, -1, <<"OSError">>)
          /\ UNCHANGED <<cwd, files>>
     ELSE /\ op' = OpRecord("fetch", save_path, v, TRUE, save_path, 200, <<>>)
          /\ files' = files \cup {Canonical(save_path)}
          /\ UNCHANGED cwd

\* run_sql_query(db_path, query); queried: whether connect and execute
\* succeed.  duckdb.connect creates a database file that does not exist.
run_sql_query(db_path, queried) ==
  LET v == validate_path(db_path)
  IN IF ~v.ok
     THEN /\ op' = OpRecord("sql", db_path, v, FALSE, <<>>, 403, AccessForbidden)
          /\ UNCHANGED <<cwd, files>>
     ELSE IF ~queried \/ ~(isfile(db_path) \/ Creatable(db_path))
     THEN /\ op' = OpRecord("sql", db_path, v, TRUE, db_path, 500,
                            <<"Database query error">>)
          /\ UNCHANGED <<cwd, files>>
     ELSE /\ op' = OpRecord("sql", db_path, v, TRUE, db_path, 200, <<>>)
          /\ files' = files \cup {Canonical(db_path)}
          /\ UNCHANGED cwd

\* Files that may exist when the process starts.
InitialFiles == { <<NameData, <<"f">> >>, <<NameData2, <<"f">> >>, << <<"f">> >> }

PathInit ==
  /\ cwd \in { <<>>, <<NameData>> }
  /\ files \in SUBSET InitialFiles
  /\ op = NoOp

\* The /run specifications leave the file handlers out.
PathIdle == cwd = <<>> /\ files = {} /\ op = NoOp

Init == RunInit /\ PathIdle

\* --------------------------------------------- PathSpec: the file handlers

PathStart == RunInit /\ PathInit

PathNext ==
  \/ \E path \in RawPaths, readable \in BOOLEAN :
       read_file(path, readable) /\ UNCHANGED <<runVars, hist>>
  \/ \E path \in SavePaths, fetched \in BOOLEAN :
       fetch_api_data(path, fetched) /\ UNCHANGED <<runVars, hist>>
  \/ \E path \in SavePaths, queried \in BOOLEAN :
       run_sql_query(path, queried) /\ UNCHANGED <<runVars, hist>>

PathSpec == PathStart /\ [][PathNext]_vars

\* ------------------------------------------------ Spec: one worker, POST /run

Next ==
  \/ \E t \in Tasks : CallHit(1, t) /\ UNCHANGED hist
  \/ \E t \in Tasks : CallMiss(1, t) /\ UNCHANGED hist
  \/ \E content \in Contents : LLMReturn(1, content) /\ UNCHANGED hist
  \/ LLMRaise(1) /\ UNCHANGED hist
  \/ SpawnError(1) /\ UNCHANGED hist
  \/ \E rc \in ExitCodes, out \in Stdouts, err \in Stderrs :
       ChildExit(1, rc, out, err) /\ UNCHANGED hist
  \/ TimeoutExpires(1) /\ UNCHANGED hist
  \/ TimeoutRaised(1) /\ UNCHANGED hist
  \/ Respond(1) /\ UNCHANGED hist

Spec == Init /\ [][Next]_vars

\* The worker thread runs: a request in progress takes its next step, and a
\* child or an external call in flight ends one way or another.
FairSpec == Spec /\ WF_vars(Next)

\* ------------------------- CacheSpec: sequential calls of parse_task_with_llm

\* Answers of the model after which execute_task starts no child.
CacheContents == { <<WS>>, <<WS, "rm", WS, "x">> }

SeqCallHit(t) == CallHit(1, t) /\ Succeeded(t, Lookup(cache, t), FALSE)

SeqCallMiss(t) == CallMiss(1, t) /\ UNCHANGED hist

SeqLLMReturn(content) ==
  LLMReturn(1, content) /\ Succeeded(task[1], strip(content), task[1] \notin Keys(cache))

SeqLLMRaise == LLMRaise(1) /\ Failed(task[1])

SeqRespond == Respond(1) /\ UNCHANGED hist

CacheNext ==
  \/ \E t \in Tasks : SeqCallHit(t)
  \/ \E t \in Tasks : SeqCallMiss(t)
  \/ \E content \in CacheContents : SeqLLMReturn(content)
  \/ SeqLLMRaise
  \/ SeqRespond

CacheSpec == Init /\ [][CacheNext]_vars

\* ------------------------------------ ConcSpec: concurrent POST /run requests

ConcNext ==
  \/ \E r \in Reqs, t \in Tasks : CallHit(r, t) /\ UNCHANGED hist
  \/ \E r \in Reqs, t \in Tasks : CallMiss(r, t) /\ UNCHANGED hist
  \/ \E r \in Reqs, content \in CacheContents : LLMReturn(r, content) /\ UNCHANGED hist
  \/ \E r \in Reqs : LLMRaise(r) /\ UNCHANGED hist
  \/ \E r \in Reqs : Respond(r) /\ UNCHANGED hist

ConcSpec == Init /\ [][ConcNext]_vars

\* ================================================================= claims

\* The first whitespace-delimited token of request r's command is rm or delete.
FirstTokenDenied(r) ==
  /\ pc[r] \in {"child", "expired", "done"}
  /\ split(command[r]) # <<>>
  /\ split(command[r])[1] \in { <<"rm">>, <<"delete">> }

\* C2: a request whose translated command has first token rm or delete never
\* calls subprocess.run and never has a child, whether the translation came
\* from the model or from the cache.
C2_DeniedNeverSpawns ==
  \A r \in Reqs :
    FirstTokenDenied(r) =>
      /\ spawned[r] = <<>>
      /\ child[r] = NoChild
      /\ pc[r] = "done"

\* A denied command served from the cache has ended its request.
C2_Witness ==
  /\ FirstTokenDenied(1)
  /\ llm_calls[1] = 0
  /\ pc[1] = "done"

\* C3 (as claimed): a request whose translated command has first token rm or
\* delete is answered 403, "File deletion is not allowed.".
C3_DeniedAnswers403 ==
  \A r \in Reqs :
    (pc[r] = "done" /\ FirstTokenDenied(r)) =>
      /\ resp[r].status = 403
      /\ resp[r].detail = <<"File deletion is not allowed.">>

TimeoutResponse ==
  [status |-> 500, detail |-> <<"Task execution timeout.">>, message |-> <<>>]

\* A finished request carries the Timeout response exactly when its child
\* outlived the timeout.
C7_TimeoutIffTimeoutResponse ==
  \A r \in Reqs :
    pc[r] = "done" => (child[r].how = "timeout" <=> resp[r] = TimeoutResponse)

\* C7: a request whose child outlived the timeout ends, and ends with the
\* Timeout response (500, "Task execution timeout."); no request that ended
\* otherwise carries that response, and none ends in success.
C7_TimeoutSurfaces ==
  /\ [] C7_TimeoutIffTimeoutResponse
  /\ \A r \in Reqs :
       (child[r].how = "timeout") ~> (pc[r] = "done" /\ resp[r] = TimeoutResponse)

\* A request has ended after its child timed out.
C7_Witness == pc[1] = "done" /\ child[1].how = "timeout"

ExitedNonZero(r) == pc[r] = "done" /\ child[r].how = "exit" /\ child[r].rc # 0

Logged(r, rec) == \E i \in 1..Len(log[r]) : log[r][i] = rec

\* C8 (as claimed): a non-zero exit is never a success, and the error the
\* caller gets carries the child's standard error text.
C8_CarriesStderr ==
  \A r \in Reqs :
    ExitedNonZero(r) =>
      /\ resp[r].status # 200
      /\ resp[r].detail = child[r].err

\* C8 (amended): a non-zero exit is never a success: the caller gets 500 with
\* the fixed detail "Internal agent error", and the child's standard error text
\* is in the server's log.
C8_NonZeroExitIsOpaque500 ==
  \A r \in Reqs :
    ExitedNonZero(r) =>
      /\ resp[r] = [status |-> 500, detail |-> <<"Internal agent error">>, message |-> <<>>]
      /\ Logged(r, <<"Task execution error", child[r].err>>)

\* A child wrote to standard error and exited with a non-zero status.
C8_Witness == ExitedNonZero(1) /\ child[1].err # <<>>

\* Request r logged the failure of the external call.
LLMFailed(r) == Logged(r, <<"LLM parsing error", <<>> >>)

C9_CacheWellFormed ==
  /\ Len(cache) <= maxsize
  /\ Cardinality(Keys(cache)) = Len(cache)

\* A call of the model returns to request r: afterwards the cache holds r's
\* task with r's result, or with the result it already held.
C9_StoreStep ==
  \A r \in Reqs :
    (pc[r] = "llm" /\ pc'[r] # "llm" /\ ~LLMFailed(r)') =>
      /\ task[r] \in Keys(cache')
      /\ \/ Lookup(cache', task[r]) = command'[r]
         \/ task[r] \in Keys(cache) /\ Lookup(cache', task[r]) = Lookup(cache, task[r])

\* C9: under every interleaving of concurrent requests the cache holds at most
\* maxsize entries and at most one per task string; a miss calls the model
\* once for its caller, and after it the cache maps the string to one of the
\* results computed for it.
C9_ConcurrentCache ==
  /\ [] C9_CacheWellFormed
  /\ [] (\A r \in Reqs : llm_calls[r] <= 1 /\ (pc[r] = "llm" => llm_calls[r] = 1))
  /\ [][C9_StoreStep]_vars

\* Two concurrent misses on one task computed different results; the cache
\* holds one entry for the task.
C9_Witness ==
  /\ pc[1] = "done" /\ pc[2] = "done"
  /\ task[1] = task[2]
  /\ llm_calls[1] = 1 /\ llm_calls[2] = 1
  /\ ~LLMFailed(1) /\ ~LLMFailed(2)
  /\ command[1] # command[2]
  /\ task[1] \in Keys(cache)

\* The single worker takes a request for task t.
Calling(t) == pc[1] = "idle" /\ pc'[1] # "idle" /\ task'[1] = t

\* t was translated with success and fewer than maxsize other distinct tasks
\* were (from the cache or the model) since.
Fresh(t) == t \in Keys(recent)

\* t was translated with success and at least maxsize others were since.
Stale(t) == t \in translated /\ t \notin Keys(recent)

\* C4 (as claimed): a call for a task translated before is answered without
\* the model when fewer than maxsize other distinct strings were translated and
\* cached since its last use, and calls the model when maxsize were.
C4_CountingInsertions ==
  [][\A t \in Tasks :
       (Calling(t) /\ t \in translated) =>
         /\ Cardinality(insertedSince[t]) < maxsize =>
              /\ pc'[1] # "llm"
              /\ Fresh(t) => command'[1] = Lookup(recent, t)
         /\ Cardinality(insertedSince[t]) >= maxsize => pc'[1] = "llm"]_vars

\* C4 (amended): a call for a task translated before returns the identical
\* text without the model when fewer than maxsize other distinct strings were
\* successfully passed to parse_task_with_llm (answered from the cache or by
\* the model) since its last use, and calls the model when maxsize were.
C4_CountingUses ==
  [][\A t \in Tasks :
       Calling(t) =>
         /\ Fresh(t) => (pc'[1] # "llm" /\ command'[1] = Lookup(recent, t))
         /\ Stale(t) => pc'[1] = "llm"]_vars

\* A task is translated again after eviction although fewer than maxsize other
\* strings were newly cached since its last use.
C4_Witness ==
  /\ pc[1] = "llm"
  /\ Stale(task[1])
  /\ Cardinality(insertedSince[task[1]]) < maxsize

\* The external call of the single worker fails for task t.
FailStep(t) ==
  pc[1] = "llm" /\ task[1] = t /\ pc'[1] # "llm" /\ lastOutcome'[t] = "fail"

\* C10: a failed translation leaves the cache as it was and ends the request
\* without another call of the model; the task is not cached, and the next call
\* for it calls the model again.
C10_FailureNotCached ==
  /\ [] (\A t \in Tasks : lastOutcome[t] = "fail" => t \notin Keys(cache))
  /\ [][\A t \in Tasks :
          /\ FailStep(t) => (cache' = cache /\ pc'[1] = "done" /\ llm_calls'[1] = 1)
          /\ (Calling(t) /\ lastOutcome[t] = "fail") => (pc'[1] = "llm" /\ llm_calls'[1] = 1)]_vars

\* A task whose latest translation failed is submitted again and the model called.
C10_Witness ==
  /\ pc[1] = "llm"
  /\ lastOutcome[task[1]] = "fail"

\* The canonical path lies in the sandbox: /data itself or below it.
InSandbox(segs) == segs # <<>> /\ segs[1] = <<"data">>

\* C1 (as claimed): validate_path succeeds exactly when the canonical path is
\* /data or a descendant of it, segment by segment, and fails with 403.
C1_ValidateIffInSandbox ==
  op.kind # "none" =>
    /\ op.ok <=> InSandbox(Canonical(op.raw))
    /\ ~op.ok => op.status = 403

\* C5 (as claimed): the path handed to open or connect is the path
\* validate_path returned.
C5_OpensValidatedPath ==
  op.opened => op.target = op.real_path

\* C6 (as claimed): GET /read answers 403 outside the sandbox without opening a
\* file, 404 when the canonical path is no regular file, and else reads it
\* (200, or 500 when the read fails).
C6_ReadStatus ==
  op.kind = "read" =>
    /\ ~InSandbox(Canonical(op.raw)) => (op.status = 403 /\ ~op.opened)
    /\ (InSandbox(Canonical(op.raw)) /\ Canonical(op.raw) \notin files) => op.status = 404
    /\ (InSandbox(Canonical(op.raw)) /\ Canonical(op.raw) \in files) =>
         (op.status \in {200, 500} /\ op.opened)

====
